---- MODULE Spec2Model ----
(***************************************************************************)
(* A model of idom's Layout (src/idom/core/layout.py): the Model-State     *)
(* tree, the event registry, the identity index, the dedup render queue    *)
(* and the operations render(), deliver(), schedule (put) and scope exit.  *)
(*                                                                         *)
(* Python objects with identity are kept in heaps:                         *)
(*   heap    _ModelState objects, by object id                             *)
(*   models  the dict objects held in Ref.current, by dict id; a dict's    *)
(*           children list holds strings and references to other dicts,    *)
(*           so that the aliasing between a child's model and its parent's *)
(*           children list is the aliasing of the program                  *)
(* A _ModelState's parent is a weak reference: it is the id of an object   *)
(* that may have left the heap.  Objects are reclaimed as CPython reclaims *)
(* them (reference counts, no cycles): at the end of each operation every  *)
(* object no strong reference reaches is gone.                             *)
(* Fresh values (uuid4().hex, object()) are the least number unused.       *)
(* Object and dict ids are addresses: after each operation the objects     *)
(* left are numbered anew in the order a walk from the index meets them,   *)
(* and a weak reference whose referent is gone becomes Dead.               *)
(* A patch path "/children/0/children/1" is the sequence <<0, 1>>.         *)
(***************************************************************************)
EXTENDS Integers, Sequences, FiniteSets, TLC

VARIABLES
    heap,           \* object id -> _ModelState
    models,         \* dict id -> model dict (Ref.current)
    _event_handlers,                        \* target -> handler
    _model_states_by_life_cycle_state_id,   \* life cycle id -> object id
    _root_life_cycle_state_id,
    _pending,       \* _ThreadSafeQueue._pending
    _queue,         \* _ThreadSafeQueue._queue, with the loop's call_soon FIFO
    producer,       \* the producer thread inside put(): 0, or the value it checked
    entered,        \* TRUE between __enter__ and the end of __exit__
    log,            \* what the last operation did, in order
    result,         \* what the last operation returned or raised
    gets,           \* how many get() calls the render loop has made
    IDOM_FEATURE_INDEX_AS_DEFAULT_KEY,
    IDOM_DEBUG_MODE

vars == << heap, models, _event_handlers, _model_states_by_life_cycle_state_id,
           _root_life_cycle_state_id, _pending, _queue, producer, entered,
           log, result, gets, IDOM_FEATURE_INDEX_AS_DEFAULT_KEY, IDOM_DEBUG_MODE >>

(* ------------------------------ bounds -------------------------------- *)

\* the longest the queue may get
MaxQueue == 2
\* the most get() calls of the render loop in one run
MaxGets == 3

(* --------------------------- small helpers ---------------------------- *)

Reverse(s) == [i \in 1..Len(s) |-> s[Len(s) + 1 - i]]

Range(s) == {s[i] : i \in 1..Len(s)}

\* the least number >= 1 not in used: a fresh uuid / object identity
Fresh(used) == CHOOSE n \in 1..(Cardinality(used) + 1) : n \notin used /\ \A m \in 1..(n - 1) : m \in used

FnPut(f, k, v) == [x \in (DOMAIN f) \cup {k} |-> IF x = k THEN v ELSE f[x]]

FnDel(f, k) == [x \in (DOMAIN f) \ {k} |-> f[x]]

EmptyFn == [x \in {} |-> 0]

\* Python dicts whose order is read (children_by_key, targets_by_event,
\* eventHandlers) are sequences of [k, v] in insertion order
DictHas(d, k) == \E i \in 1..Len(d) : d[i].k = k

DictGet(d, k) == d[CHOOSE i \in 1..Len(d) : d[i].k = k].v

DictSet(d, k, v) ==
    IF DictHas(d, k)
    THEN [i \in 1..Len(d) |-> IF d[i].k = k THEN [k |-> k, v |-> v] ELSE d[i]]
    ELSE Append(d, [k |-> k, v |-> v])

DictKeys(d) == [i \in 1..Len(d) |-> d[i].k]

DictValues(d) == [i \in 1..Len(d) |-> d[i].v]

\* the subsequence of s whose elements satisfy keep
RECURSIVE SelectKeys(_, _)
SelectKeys(s, keep) ==
    IF s = <<>> THEN <<>>
    ELSE IF Head(s) \in keep THEN <<Head(s)>> \o SelectKeys(Tail(s), keep)
    ELSE SelectKeys(Tail(s), keep)

(* ------------------------------- keys --------------------------------- *)

\* a key is None, a key the caller gave, object() or an ordinal index
NoKey == [kind |-> "none", n |-> 0]
KeyA == [kind |-> "explicit", n |-> 1]
KeyB == [kind |-> "explicit", n |-> 2]
ObjectKey(n) == [kind |-> "object", n |-> n]
IndexKey(i) == [kind |-> "index", n |-> i]

(* ------------------- what components return (inputs) ------------------ *)

\* child types of _process_child_type_and_key
_DICT_TYPE == 1
_COMPONENT_TYPE == 2
_STRING_TYPE == 3

\* an EventHandler: target None (0) or given, a function that returns or raises
Handler(fn) == [target |-> 0, fn |-> fn, prevent_default |-> FALSE, stop_propagation |-> FALSE]

NoEvents == <<>>
OnClick(fn) == << [k |-> "click", v |-> Handler(fn)] >>

\* a raw model {"tagName":..., "key":..., "eventHandlers":..., "children":[...]}
Dict(tag, key, ev, ch) ==
    [type |-> _DICT_TYPE, tagName |-> tag, key |-> key, eventHandlers |-> ev,
     children |-> ch, raises |-> FALSE, out |-> <<>>]

\* a child that is neither a dict nor a component
Text == [type |-> _STRING_TYPE, tagName |-> "text", key |-> NoKey, eventHandlers |-> NoEvents,
         children |-> <<>>, raises |-> FALSE, out |-> <<>>]

\* a component instance with its key; render() raises, or returns out[1]
Component(key, raises, out) ==
    [type |-> _COMPONENT_TYPE, tagName |-> "", key |-> key, eventHandlers |-> NoEvents,
     children |-> <<>>, raises |-> raises, out |-> out]

Raising(key) == Component(key, TRUE, <<>>)
Returning(key, frag) == Component(key, FALSE, <<frag>>)

Span == Dict("span", NoKey, NoEvents, <<>>)
Button(fn) == Dict("button", NoKey, OnClick(fn), <<>>)

(* ------------------------ objects of the program ---------------------- *)

\* LifeCycleHook(lambda: schedule_render(life_cycle_state_id)): one hook object
\* is made with each identity, so the identity numbers the object too
LifeCycleHook(id) == [object |-> id, schedules |-> id]

\* a _ModelState without the life_cycle_state attribute carries this
NoLifeCycleState == [id |-> 0, hook |-> LifeCycleHook(0), component |-> Text]

HasLifeCycleState(st) == st.life_cycle_state.id # 0

\* an item of a model's children list: a string, or a reference to a dict
TextItem == [text |-> TRUE, ref |-> 0]
RefItem(d) == [text |-> FALSE, ref |-> d]

\* the dict {"tagName": tag}
NewModel(tag) ==
    [tagName |-> tag, hasChildren |-> FALSE, children |-> <<>>,
     hasEventHandlers |-> FALSE, eventHandlers |-> <<>>,
     hasKey |-> FALSE, key |-> NoKey, hasError |-> FALSE, error |-> <<>>]

NoExc == [type |-> "", what |-> "", path |-> <<>>, keys |-> {}]
Exc(type, what, path, keys) == [type |-> type, what |-> what, path |-> path, keys |-> keys]

\* an entry of the log: what happened (ev), to which identity or target (id),
\* and what was seen at that moment
Ev(ev, id) ==
    [ev |-> ev, id |-> id, hasOld |-> FALSE, oldId |-> 0, key |-> NoKey, type |-> 0,
     ids |-> {}, targets |-> {}, exc |-> NoExc, hook |-> LifeCycleHook(0), args |-> <<>>,
     oldHook |-> LifeCycleHook(0), index |-> -1, oldIndex |-> -1, path |-> <<>>,
     parentPath |-> <<>>, keys |-> <<>>, types |-> <<>>, oldKeys |-> <<>>,
     wasComponent |-> FALSE, state |-> 0, ancestors |-> {}, value |-> <<>>]

(* ---- the state an operation works on, threaded through its steps ----- *)

Emit(W, e) == [W EXCEPT !.log = Append(@, e)]

Raise(W, e) == [W EXCEPT !.exc = e, !.log = Append(@, [Ev("raise", 0) EXCEPT !.exc = e])]

Ok(W) == W.exc.type = ""

\* the statements F that follow those that ended in W: skipped once W has raised
Then(W, F(_)) == IF Ok(W) THEN F(W) ELSE W

\* the value of a dict with its children resolved, as a serializer sees it
RECURSIVE ModelValue(_, _)
ModelValue(ms, d) ==
    [ms[d] EXCEPT !.children =
        [i \in 1..Len(ms[d].children) |->
            IF ms[d].children[i].text THEN <<"text">>
            ELSE <<ModelValue(ms, ms[d].children[i].ref)>>]]

\* _ModelState.__init__ with model=Ref() and targets_by_event={}
_ModelState(W, parent, index, key, patch_path, children_by_key, life_cycle_state) ==
    LET s == Fresh(W.usedS)
    IN  [W EXCEPT !.usedS = @ \cup {s},
                  !.ret = s,
                  !.heap = FnPut(@, s,
                      [parent |-> parent, index |-> index, key |-> key, model |-> 0,
                       patch_path |-> patch_path, children_by_key |-> children_by_key,
                       targets_by_event |-> <<>>, life_cycle_state |-> life_cycle_state])]

\* a weak reference whose referent was reclaimed
Dead == -1

\* the parent property: [exc, val]
ModelStateParent(W, s) ==
    LET p == W.heap[s].parent
    IN  IF p = 0
        THEN [exc |-> Exc("AttributeError", "_parent_ref", <<>>, {}), val |-> 0]
        ELSE IF p \notin DOMAIN W.heap
        THEN [exc |-> Exc("AssertionError", "detached model state", <<>>, {}), val |-> 0]
        ELSE [exc |-> NoExc, val |-> p]

_make_life_cycle_state(id, component) ==
    [id |-> id, hook |-> LifeCycleHook(id), component |-> component]

\* _update_life_cycle_state making a hook of its own for the identity it keeps
_update_life_cycle_state_new_hook(old_life_cycle_state, new_component) ==
    [id |-> old_life_cycle_state.id,
     hook |-> [LifeCycleHook(old_life_cycle_state.id) EXCEPT !.object = 0],
     component |-> new_component]

_update_life_cycle_state(old_life_cycle_state, new_component) ==
    [id |-> old_life_cycle_state.id, hook |-> old_life_cycle_state.hook,
     component |-> new_component]

_new_root_model_state(W, component) ==
    LET id == Fresh(W.usedL)
    IN  _ModelState([W EXCEPT !.usedL = @ \cup {id}], 0, -1, NoKey, <<>>, <<>>,
                    _make_life_cycle_state(id, component))

_make_component_model_state(W, parent, index, key, component) ==
    LET id == Fresh(W.usedL)
    IN  _ModelState([W EXCEPT !.usedL = @ \cup {id}], parent, index, key,
                    Append(W.heap[parent].patch_path, index), <<>>,
                    _make_life_cycle_state(id, component))

\* raises what the parent property raises, except AttributeError (the root)
_copy_component_model_state(W, old_model_state) ==
    LET p == ModelStateParent(W, old_model_state)
        old == W.heap[old_model_state]
    IN  IF p.exc.type = "AssertionError" THEN Raise(W, p.exc)
        ELSE _ModelState(W, p.val, old.index, old.key, old.patch_path, <<>>,
                         old.life_cycle_state)

_update_component_model_state(W, old_model_state, new_parent, new_index, new_component) ==
    LET old == W.heap[old_model_state]
    IN  IF ~HasLifeCycleState(old)
        THEN Raise(W, Exc("ValueError", "prior element with this key wasn't a component",
                          old.patch_path, {old.key}))
        ELSE _ModelState(W, new_parent, new_index, old.key, old.patch_path, <<>>,
                         _update_life_cycle_state(old.life_cycle_state, new_component))

_make_element_model_state(W, parent, index, key) ==
    _ModelState(W, parent, index, key, Append(W.heap[parent].patch_path, index), <<>>,
                NoLifeCycleState)

\* _update_element_model_state without its hasattr check
_update_element_model_state_unchecked(W, old_model_state, new_parent, new_index) ==
    LET old == W.heap[old_model_state]
    IN  _ModelState(W, new_parent, new_index, old.key, old.patch_path,
                    old.children_by_key, NoLifeCycleState)

_update_element_model_state(W, old_model_state, new_parent, new_index) ==
    LET old == W.heap[old_model_state]
    IN  IF HasLifeCycleState(old)
        THEN Raise(W, Exc("ValueError", "prior element with this key was a component",
                          old.patch_path, {old.key}))
        ELSE _ModelState(W, new_parent, new_index, old.key, old.patch_path,
                         old.children_by_key, NoLifeCycleState)

(* --------------------------- the registry ----------------------------- *)

\* del self._event_handlers[target]
DelHandler(W, target) ==
    IF target \in DOMAIN W.handlers
    THEN Emit([W EXCEPT !.handlers = FnDel(@, target)], Ev("del_handler", target))
    ELSE Raise(W, Exc("KeyError", "_event_handlers", <<>>, {}))

RECURSIVE DelHandlers(_, _)
DelHandlers(W, targets) ==
    IF targets = <<>> \/ ~Ok(W) THEN W
    ELSE DelHandlers(DelHandler(W, Head(targets)), Tail(targets))

\* every state, target and life cycle id below and including the states given
RECURSIVE Subtree(_, _)
Subtree(h, states) ==
    IF states = {} THEN {}
    ELSE states \cup Subtree(h, UNION {Range(DictValues(h[s].children_by_key)) : s \in states})

SubtreeTargets(h, states) ==
    UNION {Range(DictValues(h[s].targets_by_event)) : s \in Subtree(h, states)}

SubtreeIds(h, states) ==
    {h[s].life_cycle_state.id : s \in {t \in Subtree(h, states) : HasLifeCycleState(h[t])}}

(* ----------------------- _unmount_model_states ------------------------ *)

\* the body of the while loop for the state popped
UnmountOne(W, model_state) ==
    Then(DelHandlers(W, DictValues(W.heap[model_state].targets_by_event)),
         LAMBDA w :
            LET life_cycle_state == w.heap[model_state].life_cycle_state
            IN  IF ~HasLifeCycleState(w.heap[model_state]) THEN w
                ELSE IF life_cycle_state.id \notin DOMAIN w.index
                THEN Raise(w, Exc("KeyError", "_model_states_by_life_cycle_state_id", <<>>, {}))
                ELSE Emit([w EXCEPT !.index = FnDel(@, life_cycle_state.id)],
                          [Ev("component_will_unmount", life_cycle_state.id)
                              EXCEPT !.hook = life_cycle_state.hook]))

\* the while loop: to_unmount is the stack, its top at the end
RECURSIVE UnmountLoop(_, _)
UnmountLoop(W, to_unmount) ==
    IF to_unmount = <<>> \/ ~Ok(W) THEN W
    ELSE LET model_state == to_unmount[Len(to_unmount)]
         IN  UnmountLoop(UnmountOne(W, model_state),
                         SubSeq(to_unmount, 1, Len(to_unmount) - 1)
                            \o DictValues(W.heap[model_state].children_by_key))

_unmount_model_states(W, old_states) ==
    UnmountLoop(Emit(W, [Ev("unmount", 0) EXCEPT
                            !.ids = SubtreeIds(W.heap, Range(old_states)),
                            !.targets = SubtreeTargets(W.heap, Range(old_states))]),
                Reverse(old_states))

(* ------------------------------ rendering ----------------------------- *)

\* the order in which a Python set of keys is iterated: hash order, which
\* differs from run to run; W.rev picks one of two
SetOrder(W, s) == IF W.rev THEN Reverse(s) ELSE s

\* index when IDOM_FEATURE_INDEX_AS_DEFAULT_KEY is set
DefaultKeyIndex(index) == IndexKey(index)

\* otherwise a marker distinct from every other key, made anew on each call
DefaultKeyObject(W) == ObjectKey(Fresh(W.usedK))

_default_key(W, index) ==
    IF W.index_as_default_key THEN DefaultKeyIndex(index) ELSE DefaultKeyObject(W)

\* the generator, run to its end: W.ret is the list of (child, child_type, key)
RECURSIVE ProcessChildren(_, _, _, _)
ProcessChildren(W, children, index, acc) ==
    IF index >= Len(children) THEN [W EXCEPT !.ret = acc]
    ELSE
    LET child == children[index + 1]
        given == IF child.type = _STRING_TYPE THEN NoKey ELSE child.key
        key == IF given = NoKey THEN _default_key(W, index) ELSE given
        W1 == IF key.kind = "object" THEN [W EXCEPT !.usedK = @ \cup {key.n}] ELSE W
    IN  ProcessChildren(W1, children, index + 1,
                        Append(acc, [child |-> child, type |-> child.type, key |-> key]))

_process_child_type_and_key(W, children) == ProcessChildren(W, children, 0, <<>>)

\* one pass of "for event, handler in handlers_by_event.items()"
RegisterHandler(W, new_state, event, handler, target) ==
    [Emit(W, [Ev("register", target) EXCEPT !.state = new_state,
                                            !.value = << event, handler >>])
       EXCEPT !.usedT = @ \cup {target},
              !.heap[new_state].targets_by_event = DictSet(@, event, target),
              !.handlers = FnPut(@, target, handler),
              !.models[W.heap[new_state].model].eventHandlers =
                  DictSet(@, event, [target |-> target,
                                     preventDefault |-> handler.prevent_default,
                                     stopPropagation |-> handler.stop_propagation])]

RECURSIVE HandlersWithoutOldState(_, _, _)
HandlersWithoutOldState(W, new_state, items) ==
    IF items = <<>> THEN W
    ELSE
    LET handler == Head(items).v
        target == IF handler.target = 0 THEN Fresh(W.usedT) ELSE handler.target
    IN  HandlersWithoutOldState(RegisterHandler(W, new_state, Head(items).k, handler, target),
                                new_state, Tail(items))

_render_model_event_handlers_without_old_state(W, new_state, handlers_by_event) ==
    IF handlers_by_event = <<>> THEN W
    ELSE HandlersWithoutOldState(
            [W EXCEPT !.models[W.heap[new_state].model].hasEventHandlers = TRUE],
            new_state, handlers_by_event)

RECURSIVE HandlersWithOldState(_, _, _, _)
HandlersWithOldState(W, old_state, new_state, items) ==
    IF items = <<>> THEN W
    ELSE
    LET handler == Head(items).v
        event == Head(items).k
        old_targets == W.heap[old_state].targets_by_event
        target == IF DictHas(old_targets, event) THEN DictGet(old_targets, event)
                  ELSE IF handler.target = 0 THEN Fresh(W.usedT) ELSE handler.target
    IN  HandlersWithOldState(
            RegisterHandler(IF DictHas(old_targets, event)
                            THEN Emit(W, [Ev("old_target", DictGet(old_targets, event))
                                             EXCEPT !.state = new_state, !.value = << event >>])
                            ELSE W,
                            new_state, event, handler, target),
            old_state, new_state, Tail(items))

\* _render_model_attributes taking the branch for no old state whatever the
\* old state is
_render_model_attributes_without_old_state(W, old_state, new_state, raw_model) ==
    _render_model_event_handlers_without_old_state(W, new_state, raw_model.eventHandlers)

_render_model_attributes(W, old_state, new_state, raw_model) ==
    LET handlers_by_event == raw_model.eventHandlers
    IN  IF old_state = 0
        THEN _render_model_event_handlers_without_old_state(W, new_state, handlers_by_event)
        ELSE
        LET old_targets == W.heap[old_state].targets_by_event
            gone == SetOrder(W, SelectKeys(DictKeys(old_targets),
                        Range(DictKeys(old_targets)) \ Range(DictKeys(handlers_by_event))))
        IN  Then(DelHandlers(W, [i \in 1..Len(gone) |-> DictGet(old_targets, gone[i])]),
                 LAMBDA w :
                    IF handlers_by_event = <<>> THEN w
                    ELSE HandlersWithOldState(
                            [w EXCEPT !.models[w.heap[new_state].model].hasEventHandlers = TRUE],
                            old_state, new_state, handlers_by_event))

\* list[index : index + 1] = [item]
Splice(list, index, item) ==
    IF index + 1 <= Len(list) THEN [list EXCEPT ![index + 1] = item] ELSE Append(list, item)

\* new_children.append(item), new_children being new_state.model.current["children"]
AppendChild(W, new_state, item) ==
    [W EXCEPT !.models[W.heap[new_state].model].children = Append(@, item)]

\* new_children = new_state.model.current["children"] = []
NewChildren(W, new_state) ==
    [W EXCEPT !.models[W.heap[new_state].model].hasChildren = TRUE,
              !.models[W.heap[new_state].model].children = <<>>]

\* the keys that occur more than once, as Counter finds them
DuplicateKeys(tuples) ==
    {tuples[i].key : i \in {j \in 1..Len(tuples) :
                              \E k \in 1..Len(tuples) : k # j /\ tuples[k].key = tuples[j].key}}

\* f"{type(error).__name__}: {error}": a text is the sequence of its parts,
\* "" being <<>>
ErrorText(error) == << error.type, ": ", error.what >>

\* the dict the except clause of _render_component makes
ErrorFragment(debug_mode, error) ==
    [NewModel("") EXCEPT !.hasError = TRUE,
                         !.error = IF debug_mode THEN ErrorText(error) ELSE <<>>]

\* the except clause of _render_component
ErrorModel(W, new_state) ==
    LET d == Fresh(W.usedD)
    IN  [Emit(W, [Ev("caught", W.heap[new_state].life_cycle_state.id) EXCEPT
                     !.exc = W.exc,
                     !.index = W.heap[new_state].index,
                     !.state = W.heap[new_state].parent,
                     !.value = << ErrorFragment(W.debug_mode, W.exc) >>]) EXCEPT
            !.usedD = @ \cup {d},
            !.exc = NoExc,
            !.heap[new_state].model = d,
            !.models = FnPut(@, d, ErrorFragment(W.debug_mode, W.exc))]

\* the splice of new_state into its parent, after the try statement
SpliceIntoParent(W, old_state, new_state) ==
    LET p == ModelStateParent(W, new_state)
        new == W.heap[new_state]
    IN  IF p.exc.type = "AttributeError" THEN W
        ELSE IF p.exc.type # "" THEN Raise(W, p.exc)
        ELSE IF old_state # 0
                /\ (new.key # W.heap[old_state].key \/ new.index # W.heap[old_state].index)
        THEN Raise(W, Exc("AssertionError", "state mismatch during component update", <<>>, {}))
        ELSE
        LET W1 == [W EXCEPT !.heap[p.val].children_by_key = DictSet(@, new.key, new_state)]
            pd == W1.heap[p.val].model
        IN  IF pd = 0 THEN Raise(W1, Exc("AttributeError", "current", <<>>, {}))
            ELSE IF ~W1.models[pd].hasChildren THEN Raise(W1, Exc("KeyError", "children", <<>>, {}))
            ELSE Emit([W1 EXCEPT !.models[pd].children =
                                    Splice(@, new.index, RefItem(new.model))],
                      [Ev("splice", new.life_cycle_state.id) EXCEPT
                          !.index = new.index, !.state = p.val,
                          !.value = << W1.models[new.model] >>])

RECURSIVE _render_component(_, _, _, _)
RECURSIVE _render_model(_, _, _, _)
RECURSIVE _render_model_children(_, _, _, _)
RECURSIVE _render_model_children_without_old_state(_, _, _)
RECURSIVE RenderChildren(_, _, _, _, _)
RECURSIVE RenderChildrenWithoutOldState(_, _, _, _)

\* _render_component up to the try statement
WillRender(W, old_state, new_state) ==
    LET life_cycle_state == W.heap[new_state].life_cycle_state
        id == life_cycle_state.id
        parent == W.heap[new_state].parent
    IN  Emit([W EXCEPT !.index = FnPut(@, id, new_state)],
             [Ev("component_will_render", id) EXCEPT
                 !.hasOld = old_state # 0, !.hook = life_cycle_state.hook,
                 !.oldId = IF old_state = 0 THEN 0
                           ELSE W.heap[old_state].life_cycle_state.id,
                 !.oldHook = IF old_state = 0 THEN LifeCycleHook(0)
                             ELSE W.heap[old_state].life_cycle_state.hook,
                 !.oldIndex = IF old_state = 0 THEN -1 ELSE W.heap[old_state].index,
                 !.key = W.heap[new_state].key,
                 !.index = W.heap[new_state].index,
                 !.path = W.heap[new_state].patch_path,
                 !.parentPath = IF parent \in DOMAIN W.heap THEN W.heap[parent].patch_path
                                ELSE <<>>])

\* a call of the method ev of the hook of new_state
HookEv(W, ev, new_state) ==
    [Ev(ev, W.heap[new_state].life_cycle_state.id) EXCEPT
        !.hook = W.heap[new_state].life_cycle_state.hook]

\* the try block with unset_current after component.render() instead of in a
\* finally clause
TryRender_without_finally(W, old_state, new_state, component) ==
    IF component.raises
    THEN Raise(Emit(Emit(W, HookEv(W, "set_current", new_state)),
                    Ev("render", W.heap[new_state].life_cycle_state.id)),
               Exc("RenderError", "component.render", <<>>, {}))
    ELSE _render_model(Emit(Emit(Emit(W, HookEv(W, "set_current", new_state)),
                                 Ev("render", W.heap[new_state].life_cycle_state.id)),
                            HookEv(W, "unset_current", new_state)),
                       old_state, new_state, component.out[1])

\* the try block: component.render() inside set_current and unset_current,
\* then _render_model
TryRender(W, old_state, new_state, component) ==
    LET id == W.heap[new_state].life_cycle_state.id
    IN  IF component.raises
        THEN Raise(Emit(Emit(Emit(W, HookEv(W, "set_current", new_state)), Ev("render", id)),
                        HookEv(W, "unset_current", new_state)),
                   Exc("RenderError", "component.render", <<>>, {}))
        ELSE _render_model(Emit(Emit(Emit(W, HookEv(W, "set_current", new_state)),
                                     Ev("render", id)),
                                HookEv(W, "unset_current", new_state)),
                           old_state, new_state, component.out[1])

\* "except Exception as error"
Except(W, new_state) == IF Ok(W) THEN W ELSE ErrorModel(W, new_state)

_render_component(W, old_state, new_state, component) ==
    SpliceIntoParent(
        Except(TryRender(WillRender(W, old_state, new_state), old_state, new_state, component),
               new_state),
        old_state, new_state)

\* new_state.model.current = {"tagName": raw_model["tagName"]}
SetCurrent(W, new_state, raw_model) ==
    LET d == Fresh(W.usedD)
    IN  [W EXCEPT !.usedD = @ \cup {d},
                  !.heap[new_state].model = d,
                  !.models = FnPut(@, d, NewModel(raw_model.tagName))]

\* if "key" in raw_model
SetKey(W, new_state, raw_model) ==
    IF raw_model.key # NoKey
    THEN [W EXCEPT !.models[W.heap[new_state].model].hasKey = TRUE,
                   !.models[W.heap[new_state].model].key = raw_model.key]
    ELSE W

_render_model(W, old_state, new_state, raw_model) ==
    Then(_render_model_attributes(SetCurrent(W, new_state, raw_model),
                                  old_state, new_state, raw_model),
         LAMBDA w1 :
            Then(_render_model_children(w1, old_state, new_state, raw_model.children),
                 LAMBDA w2 : SetKey(w2, new_state, raw_model)))

\* old_state.children_by_key.get(key): 0 for None
OldChildState(W, old_state, key) ==
    LET old_children == W.heap[old_state].children_by_key
    IN  IF DictHas(old_children, key) THEN DictGet(old_children, key) ELSE 0

\* the log's note that the child at a key continues an old state
Matched(W, old_child_state, item) ==
    Emit(W, [Ev("match", W.heap[old_child_state].life_cycle_state.id)
                EXCEPT !.key = item.key, !.type = item.type,
                       !.wasComponent = HasLifeCycleState(W.heap[old_child_state]),
                       !.path = W.heap[old_child_state].patch_path])

\* new_children.append(...) and new_state.children_by_key[key] = ...
AddElementChild(W, new_state, key, child_state) ==
    [AppendChild(W, new_state, RefItem(W.heap[child_state].model)) EXCEPT
        !.heap[new_state].children_by_key = DictSet(@, key, child_state)]

\* one pass of the for loop of _render_model_children
RenderChild(W, old_state, new_state, item, index) ==
    LET old_child_state == OldChildState(W, old_state, item.key)
    IN  IF item.type = _DICT_TYPE
        THEN Then(IF old_child_state = 0
                  THEN _make_element_model_state(W, new_state, index, item.key)
                  ELSE _update_element_model_state(Matched(W, old_child_state, item),
                                                   old_child_state, new_state, index),
                  LAMBDA w1 :
                     Then(_render_model(w1, old_child_state, w1.ret, item.child),
                          LAMBDA w2 : AddElementChild(w2, new_state, item.key, w1.ret)))
        ELSE IF item.type = _COMPONENT_TYPE
        THEN Then(IF old_child_state = 0
                  THEN _make_component_model_state(W, new_state, index, item.key, item.child)
                  ELSE _update_component_model_state(Matched(W, old_child_state, item),
                                                     old_child_state, new_state, index,
                                                     item.child),
                  LAMBDA w1 : _render_component(w1, old_child_state, w1.ret, item.child))
        ELSE AppendChild(W, new_state, TextItem)

\* the log's note that the for loop over the children of new_state ended
ChildrenDone(W, new_state, count) ==
    Emit(W, [Ev("children_done", 0) EXCEPT !.state = new_state, !.index = count])

\* the for loop of _render_model_children, from index on
RenderChildren(W, old_state, new_state, tuples, index) ==
    IF ~Ok(W) THEN W
    ELSE IF index >= Len(tuples) THEN ChildrenDone(W, new_state, index)
    ELSE RenderChildren(RenderChild(W, old_state, new_state, tuples[index + 1], index),
                        old_state, new_state, tuples, index + 1)

\* the log's note of the keys the children of new_state resolved to (W.ret)
Resolved(W, old_state, new_state) ==
    LET old_children == IF old_state = 0 THEN <<>> ELSE W.heap[old_state].children_by_key
    IN  Emit(W, [Ev("children", 0) EXCEPT
                    !.hasOld = old_state # 0,
                    !.state = new_state,
                    !.path = W.heap[new_state].patch_path,
                    !.keys = [i \in 1..Len(W.ret) |-> W.ret[i].key],
                    !.types = [i \in 1..Len(W.ret) |-> W.ret[i].type],
                    !.oldKeys = DictKeys(old_children),
                    !.wasComponent =
                        \A i \in 1..Len(old_children) :
                            HasLifeCycleState(W.heap[old_children[i].v])])

\* _render_model_children from the duplicate check on; WP.ret is
\* child_type_key_tuples
DiffChildren(WP, old_state, new_state, raw_children) ==
    LET child_type_key_tuples == WP.ret
        new_keys == {child_type_key_tuples[i].key : i \in 1..Len(child_type_key_tuples)}
        old_children == WP.heap[old_state].children_by_key
        old_keys == SetOrder(WP, SelectKeys(DictKeys(old_children),
                                            Range(DictKeys(old_children)) \ new_keys))
    IN  IF Cardinality(new_keys) # Len(raw_children)
        THEN Raise(WP, Exc("ValueError", "Duplicate keys", WP.heap[new_state].patch_path,
                           DuplicateKeys(child_type_key_tuples)))
        ELSE Then(IF old_keys # <<>>
                  THEN _unmount_model_states(WP,
                           [i \in 1..Len(old_keys) |-> DictGet(old_children, old_keys[i])])
                  ELSE WP,
                  LAMBDA w : RenderChildren(NewChildren(w, new_state), old_state, new_state,
                                            child_type_key_tuples, 0))

_render_model_children(W, old_state, new_state, raw_children) ==
    IF old_state = 0
    THEN IF raw_children # <<>>
         THEN _render_model_children_without_old_state(W, new_state, raw_children)
         ELSE W
    ELSE IF raw_children = <<>>
    THEN _unmount_model_states(W, DictValues(W.heap[old_state].children_by_key))
    ELSE DiffChildren(Resolved(_process_child_type_and_key(W, raw_children),
                               old_state, new_state),
                      old_state, new_state, raw_children)

_render_model_children_without_old_state(W, new_state, raw_children) ==
    Then(Resolved(_process_child_type_and_key(W, raw_children), 0, new_state),
         LAMBDA w : RenderChildrenWithoutOldState(NewChildren(w, new_state), new_state,
                                                  w.ret, 0))

\* one pass of the for loop of _render_model_children_without_old_state
RenderChildWithoutOldState(W, new_state, item, index) ==
    IF item.type = _DICT_TYPE
    THEN Then(_make_element_model_state(W, new_state, index, item.key),
              LAMBDA w1 :
                 Then(_render_model(w1, 0, w1.ret, item.child),
                      LAMBDA w2 : AddElementChild(w2, new_state, item.key, w1.ret)))
    ELSE IF item.type = _COMPONENT_TYPE
    THEN Then(_make_component_model_state(W, new_state, index, item.key, item.child),
              LAMBDA w1 : _render_component(w1, 0, w1.ret, item.child))
    ELSE AppendChild(W, new_state, TextItem)

\* the for loop of _render_model_children_without_old_state, from index on
RenderChildrenWithoutOldState(W, new_state, tuples, index) ==
    IF ~Ok(W) THEN W
    ELSE IF index >= Len(tuples) THEN ChildrenDone(W, new_state, index)
    ELSE RenderChildrenWithoutOldState(
            RenderChildWithoutOldState(W, new_state, tuples[index + 1], index),
            new_state, tuples, index + 1)

\* _iter_model_state_children: the state, then each child's states in turn
RECURSIVE _iter_model_state_children(_, _)
RECURSIVE IterChildren(_, _)
IterChildren(h, children) ==
    IF children = <<>> THEN <<>>
    ELSE _iter_model_state_children(h, Head(children)) \o IterChildren(h, Tail(children))

_iter_model_state_children(h, model_state) ==
    <<model_state>> \o IterChildren(h, DictValues(h[model_state].children_by_key))

\* the states above s: its parent, as long as the weak reference holds one,
\* and the states above that
RECURSIVE Ancestors(_, _)
Ancestors(h, s) ==
    IF h[s].parent \notin DOMAIN h THEN {}
    ELSE {h[s].parent} \cup Ancestors(h, h[s].parent)

\* "hook effects must run after the update is complete"
RECURSIVE DidRender(_, _)
DidRender(W, states) ==
    IF states = <<>> THEN W
    ELSE
    LET st == W.heap[Head(states)]
    IN  DidRender(IF HasLifeCycleState(st)
                  THEN Emit(W, [Ev("component_did_render", st.life_cycle_state.id)
                                   EXCEPT !.hook = st.life_cycle_state.hook,
                                          !.state = Head(states),
                                          !.ancestors = Ancestors(W.heap, Head(states))])
                  ELSE W,
                  Tail(states))

NoUpdate == [path |-> <<>>, hasOld |-> FALSE, old |-> <<>>, new |-> <<>>]

\* a LayoutUpdate that never carries the old model
LayoutUpdate_without_old(W, old_state, new_state) ==
    [W EXCEPT !.ret =
        [path |-> W.heap[new_state].patch_path,
         hasOld |-> FALSE,
         old |-> <<>>,
         new |-> <<ModelValue(W.models, W.heap[new_state].model)>>]]

\* LayoutUpdate(path=..., old=..., new=...) in W.ret
LayoutUpdate(W, old_state, new_state) ==
    LET old_model == W.heap[old_state].model
    IN  [W EXCEPT !.ret =
            [path |-> W.heap[new_state].patch_path,
             hasOld |-> old_model # 0,
             old |-> IF old_model = 0 THEN <<>> ELSE <<ModelValue(W.models, old_model)>>,
             new |-> <<ModelValue(W.models, W.heap[new_state].model)>>]]

\* new_state.life_cycle_state.component, whose render() returns raw_model this time
CurrentComponent(W, new_state, raw_model) ==
    [W.heap[new_state].life_cycle_state.component EXCEPT
        !.raises = raw_model.raises, !.out = raw_model.out]

_create_layout_update(W, old_state, raw_model) ==
    Then(_copy_component_model_state(W, old_state),
         LAMBDA w1 :
            Then(_render_component(w1, old_state, w1.ret,
                                   CurrentComponent(w1, w1.ret, raw_model)),
                 LAMBDA w2 :
                    LayoutUpdate(DidRender(w2, _iter_model_state_children(w2.heap, w1.ret)),
                                 old_state, w1.ret)))

(* ----------------------- reclaiming the objects ----------------------- *)

\* s without the later occurrences of its elements
RECURSIVE Uniq(_, _)
Uniq(s, seen) ==
    IF s = <<>> THEN <<>>
    ELSE IF Head(s) \in seen THEN Uniq(Tail(s), seen)
    ELSE <<Head(s)>> \o Uniq(Tail(s), seen \cup {Head(s)})

\* the position of x in s
Rank(s, x) == CHOOSE i \in 1..Len(s) : s[i] = x

RECURSIVE Sorted(_)
Sorted(S) ==
    IF S = {} THEN <<>>
    ELSE LET m == CHOOSE x \in S : \A y \in S : x <= y IN <<m>> \o Sorted(S \ {m})

RECURSIVE Flatten(_)
Flatten(ss) == IF ss = <<>> THEN <<>> ELSE Head(ss) \o Flatten(Tail(ss))

\* the live _ModelState objects, in the order a walk from the index meets them
StateOrder(W) ==
    LET ids == Sorted(DOMAIN W.index)
    IN  Uniq(Flatten([i \in 1..Len(ids) |-> _iter_model_state_children(W.heap, W.index[ids[i]])]), {})

RECURSIVE ModelWalk(_, _)
ModelWalk(ms, d) ==
    <<d>> \o Flatten([i \in 1..Len(ms[d].children) |->
                        IF ms[d].children[i].text THEN <<>>
                        ELSE ModelWalk(ms, ms[d].children[i].ref)])

ModelOrder(W, states) ==
    Uniq(Flatten([i \in 1..Len(states) |->
                    IF W.heap[states[i]].model = 0 THEN <<>>
                    ELSE ModelWalk(W.models, W.heap[states[i]].model)]), {})

ObjectKeyOrder(W, states) ==
    LET keys == Flatten([i \in 1..Len(states) |->
                    <<W.heap[states[i]].key>> \o DictKeys(W.heap[states[i]].children_by_key)])
    IN  Uniq(SelectKeys(keys, {k \in Range(keys) : k.kind = "object"}), {})

\* the objects strong references reach, renumbered; the rest is reclaimed
Collect(W) ==
    LET states == StateOrder(W)
        dicts == ModelOrder(W, states)
        keys == ObjectKeyOrder(W, states)
        S(s) == IF s = 0 THEN 0 ELSE IF s \in Range(states) THEN Rank(states, s) ELSE Dead
        D(d) == IF d = 0 THEN 0 ELSE Rank(dicts, d)
        K(k) == IF k.kind = "object" THEN ObjectKey(Rank(keys, k)) ELSE k
        State(st) ==
            [st EXCEPT !.parent = S(@), !.model = D(@), !.key = K(@),
                       !.children_by_key = [i \in 1..Len(@) |-> [k |-> K(@[i].k), v |-> S(@[i].v)]]]
        Model(m) ==
            [m EXCEPT !.children = [i \in 1..Len(@) |->
                                       IF @[i].text THEN @[i] ELSE RefItem(D(@[i].ref))]]
    IN  [W EXCEPT !.heap = [i \in 1..Len(states) |-> State(W.heap[states[i]])],
                  !.models = [i \in 1..Len(dicts) |-> Model(W.models[dicts[i]])],
                  !.index = [id \in DOMAIN W.index |-> S(W.index[id])]]

(* ------------------ an operation's view of the state ------------------ *)

ObjectKeysOf(st) ==
    {k.n : k \in {x \in {st.key} \cup Range(DictKeys(st.children_by_key)) : x.kind = "object"}}

World(h, ms, handlers, idx, ids, rev) ==
    [heap |-> h, models |-> ms, handlers |-> handlers, index |-> idx,
     log |-> <<>>, exc |-> NoExc, ret |-> 0, rev |-> rev,
     index_as_default_key |-> IDOM_FEATURE_INDEX_AS_DEFAULT_KEY,
     debug_mode |-> IDOM_DEBUG_MODE,
     usedS |-> DOMAIN h,
     usedD |-> DOMAIN ms,
     usedL |-> ((DOMAIN idx) \cup ids \cup {h[s].life_cycle_state.id : s \in DOMAIN h}) \ {0},
     usedT |-> (DOMAIN handlers)
               \cup UNION {Range(DictValues(h[s].targets_by_event)) : s \in DOMAIN h}
               \cup UNION {{ms[d].eventHandlers[i].v.target : i \in 1..Len(ms[d].eventHandlers)} : d \in DOMAIN ms},
     usedK |-> UNION {ObjectKeysOf(h[s]) : s \in DOMAIN h}]

Now(rev) ==
    World(heap, models, _event_handlers, _model_states_by_life_cycle_state_id,
          Range(_queue) \cup _pending \cup {producer}, rev)

NoResult == [op |-> "", kind |-> "", id |-> 0, exc |-> NoExc, update |-> NoUpdate, data |-> <<>>]

Result(op, kind, id, exc, update) ==
    [op |-> op, kind |-> kind, id |-> id, exc |-> exc, update |-> update, data |-> <<>>]

\* the engine's state after the operation that ended in W, W being collected
Commit(W) ==
    /\ heap' = W.heap
    /\ models' = W.models
    /\ _event_handlers' = W.handlers
    /\ _model_states_by_life_cycle_state_id' = W.index
    /\ log' = W.log

\* the operation op that ended in W returns, or raises, to its caller
Return(W, op, id, data) ==
    /\ Commit(Collect(W))
    /\ result' = IF Ok(W)
                 THEN [Result(op, IF op = "render" /\ W.ret = NoUpdate THEN "skipped"
                                  ELSE "returned",
                              id, NoExc,
                              IF op = "render" THEN W.ret ELSE NoUpdate) EXCEPT !.data = data]
                 ELSE [Result(op, "raised", id, W.exc, NoUpdate) EXCEPT !.data = data]

(* ------------------------------ inputs -------------------------------- *)

\* what a child component's render() may do when it renders again by itself
ChildOutputs == {Raising(NoKey), Returning(NoKey, Span), Returning(NoKey, Button("raise"))}

Div(children) == Returning(NoKey, Dict("div", NoKey, NoEvents, children))

\* the children the root's render() may return
RootChildren ==
    { <<>>,
      << Returning(KeyA, Button("ok")) >>,
      << Returning(KeyA, Span), Returning(KeyB, Span) >>,
      << Returning(KeyB, Span), Returning(KeyA, Span) >>,
      << Dict("p", KeyA, OnClick("ok"), <<>>) >>,
      << Dict("p", KeyA, NoEvents, <<>>), Dict("p", KeyB, OnClick("ok"), <<>>) >>,
      << Dict("p", KeyA, NoEvents, << Dict("i", NoKey, OnClick("ok"), <<>>) >>),
         Dict("p", KeyB, OnClick("ok"), <<>>) >>,
      << Dict("p", KeyA, NoEvents, <<>>), Dict("p", KeyA, OnClick("ok"), <<>>) >>,
      << Dict("p", KeyA, NoEvents, << Dict("i", KeyB, NoEvents, <<>>),
                                      Dict("i", KeyB, OnClick("ok"), <<>>) >>) >>,
      << Raising(KeyA), Returning(KeyB, Span) >>,
      << Dict("p", KeyA, NoEvents, << Returning(KeyB, Span) >>) >>,
      << Text, Returning(NoKey, Button("ok")) >> }

\* the root's outputs where only the scheduling is of interest
ThreadRootOutputs == {Div(<<>>), Div(<< Returning(KeyA, Span) >>)}

RootOutputs == {Raising(NoKey)} \cup {Div(c) : c \in RootChildren}

(* ------------------------------ actions ------------------------------- *)

\* Layout.__enter__
Init ==
    LET W0 == World(EmptyFn, EmptyFn, EmptyFn, EmptyFn, {}, FALSE)
        W1 == _new_root_model_state(W0, Component(NoKey, FALSE, <<>>))
        root_id == W1.heap[W1.ret].life_cycle_state.id
    IN  /\ IDOM_FEATURE_INDEX_AS_DEFAULT_KEY \in BOOLEAN
        /\ IDOM_DEBUG_MODE \in BOOLEAN
        /\ heap = W1.heap
        /\ models = EmptyFn
        /\ _event_handlers = EmptyFn
        /\ _root_life_cycle_state_id = root_id
        /\ _pending = {root_id}
        /\ _queue = <<root_id>>
        /\ _model_states_by_life_cycle_state_id = [i \in {root_id} |-> W1.ret]
        /\ producer = 0
        /\ entered = TRUE
        /\ gets = 0
        /\ log = <<>>
        /\ result = Result("enter", "returned", 0, NoExc, NoUpdate)

\* put with a queue that hands out the newest entry first
Put_in_front(value) ==
    /\ entered
    /\ Len(_queue) < MaxQueue
    /\ value \notin _pending
    /\ _pending' = _pending \cup {value}
    /\ _queue' = << value >> \o _queue
    /\ log' = <<>>
    /\ result' = Result("put", "returned", value, NoExc, NoUpdate)
    /\ UNCHANGED << heap, models, _event_handlers, _model_states_by_life_cycle_state_id,
                    _root_life_cycle_state_id, producer, entered, gets,
                    IDOM_FEATURE_INDEX_AS_DEFAULT_KEY, IDOM_DEBUG_MODE >>

\* _ThreadSafeQueue.put, called in the loop's own thread
Put(value) ==
    /\ entered
    /\ Len(_queue) < MaxQueue
    /\ value \notin _pending
    /\ _pending' = _pending \cup {value}
    /\ _queue' = Append(_queue, value)
    /\ log' = <<>>
    /\ result' = Result("put", "returned", value, NoExc, NoUpdate)
    /\ UNCHANGED << heap, models, _event_handlers, _model_states_by_life_cycle_state_id,
                    _root_life_cycle_state_id, producer, entered, gets,
                    IDOM_FEATURE_INDEX_AS_DEFAULT_KEY, IDOM_DEBUG_MODE >>

\* put in another thread, up to "if value not in self._pending"
PutCheck(value) ==
    /\ entered
    /\ producer = 0
    /\ value \notin _pending
    /\ producer' = value
    /\ log' = <<>>
    /\ result' = Result("put", "checked", value, NoExc, NoUpdate)
    /\ UNCHANGED << heap, models, _event_handlers, _model_states_by_life_cycle_state_id,
                    _root_life_cycle_state_id, _pending, _queue, entered, gets,
                    IDOM_FEATURE_INDEX_AS_DEFAULT_KEY, IDOM_DEBUG_MODE >>

\* the rest of put in that thread: _pending.add and call_soon_threadsafe
PutAdd ==
    /\ entered
    /\ producer # 0
    /\ Len(_queue) < MaxQueue
    /\ _pending' = _pending \cup {producer}
    /\ _queue' = Append(_queue, producer)
    /\ producer' = 0
    /\ log' = <<>>
    /\ result' = Result("put", "returned", producer, NoExc, NoUpdate)
    /\ UNCHANGED << heap, models, _event_handlers, _model_states_by_life_cycle_state_id,
                    _root_life_cycle_state_id, entered, gets,
                    IDOM_FEATURE_INDEX_AS_DEFAULT_KEY, IDOM_DEBUG_MODE >>

\* render with the index lookup outside any try statement: the KeyError of a
\* missing identity leaves render()
render_without_except(W, model_state_id, raw_model) ==
    IF model_state_id \notin DOMAIN W.index
    THEN Raise(W, Exc("KeyError", "_model_states_by_life_cycle_state_id", <<>>, {}))
    ELSE _create_layout_update(W, W.index[model_state_id], raw_model)

\* the loop body of Layout.render once get() has returned model_state_id; a
\* W.ret of NoUpdate is the loop going back to get()
render(W, model_state_id, raw_model) ==
    IF model_state_id \notin DOMAIN W.index
    THEN [Emit(W, Ev("logger.info", model_state_id)) EXCEPT !.ret = NoUpdate]
    ELSE _create_layout_update(W, W.index[model_state_id], raw_model)

\* a turn of the loop whose get() leaves the identity in _pending
Render_keeps_pending(raw_model, rev) ==
    /\ entered
    /\ _queue # <<>>
    /\ gets < MaxGets
    /\ _queue' = Tail(_queue)
    /\ _pending' = _pending
    /\ Return(render(Now(rev), Head(_queue), raw_model), "render", Head(_queue), <<>>)
    /\ gets' = gets + 1
    /\ UNCHANGED << _root_life_cycle_state_id, producer, entered,
                    IDOM_FEATURE_INDEX_AS_DEFAULT_KEY, IDOM_DEBUG_MODE >>

\* one turn of the loop of Layout.render: a get() and what follows it
Render(raw_model, rev) ==
    /\ entered
    /\ _queue # <<>>
    /\ gets < MaxGets
    /\ LET model_state_id == Head(_queue)
       IN  /\ _queue' = Tail(_queue)
           /\ IF model_state_id \notin _pending
              THEN \* self._pending.remove(value) raises
                   /\ result' = Result("render", "raised", model_state_id,
                                       Exc("KeyError", "_pending", <<>>, {}), NoUpdate)
                   /\ log' = <<>>
                   /\ UNCHANGED << heap, models, _event_handlers, _pending,
                                   _model_states_by_life_cycle_state_id >>
              ELSE /\ _pending' = _pending \ {model_state_id}
                   /\ Return(render(Now(rev), model_state_id, raw_model),
                             "render", model_state_id, <<>>)
    /\ gets' = gets + 1
    /\ UNCHANGED << _root_life_cycle_state_id, producer, entered,
                    IDOM_FEATURE_INDEX_AS_DEFAULT_KEY, IDOM_DEBUG_MODE >>

\* the proxies the handler receives in place of the event's data
_wrap_in_warning_event_proxies(data) == [i \in 1..Len(data) |-> [proxy_of |-> data[i]]]

\* deliver looking the handler up with self._event_handlers[event.target]
deliver_without_get(W, event) ==
    IF event.target \in DOMAIN W.handlers
    THEN Emit(W, [Ev("handler", event.target) EXCEPT
                     !.args = _wrap_in_warning_event_proxies(event.data)])
    ELSE Raise(W, Exc("KeyError", "_event_handlers", <<>>, {}))

\* deliver without the try statement around the handler's call
deliver_without_try(W, event) ==
    IF event.target \in DOMAIN W.handlers
    THEN IF W.handlers[event.target].fn = "raise"
         THEN Raise(Emit(W, [Ev("handler", event.target) EXCEPT
                                !.args = _wrap_in_warning_event_proxies(event.data)]),
                    Exc("HandlerError", "handler.function", <<>>, {}))
         ELSE Emit(W, [Ev("handler", event.target) EXCEPT
                          !.args = _wrap_in_warning_event_proxies(event.data)])
    ELSE Emit(W, Ev("logger.info", event.target))

\* the body of Layout.deliver
deliver(W, event) ==
    IF event.target \in DOMAIN W.handlers
    THEN LET handler == W.handlers[event.target]
             W1 == Emit(W, [Ev("handler", event.target) EXCEPT
                               !.args = _wrap_in_warning_event_proxies(event.data)])
         IN  IF handler.fn = "raise"
             THEN Emit([Raise(W1, Exc("HandlerError", "handler.function", <<>>, {}))
                           EXCEPT !.exc = NoExc],
                       Ev("logger.exception", event.target))
             ELSE W1
    ELSE Emit(W, Ev("logger.info", event.target))

LayoutEvent(target, data) == [target |-> target, data |-> data]

Deliver(event) ==
    /\ entered
    /\ Return(deliver(Now(FALSE), event), "deliver", event.target, event.data)
    /\ UNCHANGED << _root_life_cycle_state_id, _pending, _queue, producer, entered, gets,
                    IDOM_FEATURE_INDEX_AS_DEFAULT_KEY, IDOM_DEBUG_MODE >>

\* Layout.__exit__
Exit ==
    /\ entered
    /\ LET root_csid == _root_life_cycle_state_id
           root_model_state == _model_states_by_life_cycle_state_id[root_csid]
       IN  Return(_unmount_model_states(Now(FALSE), <<root_model_state>>), "exit", 0, <<>>)
    /\ entered' = FALSE
    /\ UNCHANGED << _root_life_cycle_state_id, _pending, _queue, producer, gets,
                    IDOM_FEATURE_INDEX_AS_DEFAULT_KEY, IDOM_DEBUG_MODE >>

\* the identities a hook may schedule: those of the mounted components
Mounted == DOMAIN _model_states_by_life_cycle_state_id

\* what the component about to render may return, the root's outputs being roots
Outputs(roots) ==
    IF _queue # <<>> /\ Head(_queue) = _root_life_cycle_state_id THEN roots ELSE ChildOutputs

\* the events a client may send: to a registered target or to one that is not
Events ==
    {LayoutEvent(target, data) :
        target \in (DOMAIN _event_handlers) \cup {Fresh(DOMAIN _event_handlers)},
        data \in {<<"click">>}}

\* the layout used from the event loop's thread alone
Next ==
    \/ \E value \in Mounted : Put(value)
    \/ \E raw_model \in Outputs(RootOutputs), rev \in BOOLEAN : Render(raw_model, rev)
    \/ \E event \in Events : Deliver(event)
    \/ Exit

Spec == Init /\ [][Next]_vars

\* the layout with a second thread that schedules renders
NextThreads ==
    \/ \E value \in Mounted : Put(value)
    \/ \E value \in Mounted : PutCheck(value)
    \/ PutAdd
    \/ \E raw_model \in Outputs(ThreadRootOutputs) : Render(raw_model, FALSE)
    \/ Exit

SpecThreads == Init /\ [][NextThreads]_vars

\* put, as long as the render loop can still take what is queued within MaxGets
PutWithinGets(value) == gets + Len(_queue) < MaxGets /\ Put(value)

\* the render loop: "while True: update = await layout.render()"
RenderLoop == \E raw_model \in Outputs(ThreadRootOutputs) : Render(raw_model, FALSE)

\* the layout in its scope, with a render loop that keeps consuming
NextFair ==
    \/ \E value \in Mounted : PutWithinGets(value)
    \/ RenderLoop

\* a step of RenderLoop by what tells it from the other steps: RenderLoop is
\* enabled exactly when the guard holds, and its steps alone count a get()
GetTurn == entered /\ _queue # <<>> /\ gets < MaxGets /\ gets' = gets + 1

\* weak fairness of the render loop
SpecFair == Init /\ [][NextFair]_vars /\ WF_gets(GetTurn)

(* ------------------------- the specification's claims ------------------ *)

\* the events of the log that are ev
EventsOf(ev) == {i \in 1..Len(log) : log[i].ev = ev}

\* the last operation was a render() whose get() failed in _pending.remove
GetFailed ==
    /\ result.op = "render"
    /\ result.kind = "raised"
    /\ result.exc = Exc("KeyError", "_pending", <<>>, {})

\* C1: an identity put again before get() returns it, from whichever threads
\* and however their checks and adds interleave, is in the queue once, and
\* get() never fails when it removes the identity from _pending
C1_ScheduledOnce ==
    /\ \A i, j \in 1..Len(_queue) : _queue[i] = _queue[j] => i = j
    /\ ~GetFailed

\* C2: a render() that took a live identity returns an update: no exception
\* leaves render()
C2_NoExceptionLeavesRender ==
    result.op = "render" => result.kind \in {"returned", "skipped"}

\* C3: a render() that takes an identity absent from the index at that moment
\* discards it: it returns no update, calls no component's render and no hook,
\* and leaves the layout as it was
C3_StaleIdentityDiscarded ==
    [][(gets' = gets + 1 /\ Head(_queue) \notin DOMAIN _model_states_by_life_cycle_state_id)
        => /\ result'.kind = "skipped"
           /\ result'.update = NoUpdate
           /\ \A i \in 1..Len(log') : log'[i].ev = "logger.info"
           /\ UNCHANGED << heap, models, _event_handlers,
                           _model_states_by_life_cycle_state_id >>]_vars

\* a render() discarded the identity of a component unmounted after its put
C3_Witness ==
    /\ result.op = "render"
    /\ result.kind = "skipped"
    /\ result.id \notin DOMAIN _model_states_by_life_cycle_state_id

\* C4: after a render whose diff unmounts subtrees (the children whose keys are
\* gone, or all the old children when the new fragment has none), the registry
\* holds no target registered by a state of those subtrees and the index no
\* identity of them; and an update for no children has no children
C4_UnmountLeavesNothing ==
    (result.op = "render" /\ result.kind = "returned") =>
        /\ \A i \in EventsOf("unmount") :
              /\ log[i].targets \cap DOMAIN _event_handlers = {}
              /\ log[i].ids \cap DOMAIN _model_states_by_life_cycle_state_id = {}
        /\ \A i \in EventsOf("children") :
              (log[i].keys = <<>> /\ log[i].path = result.update.path)
                  => result.update.new[1].children = <<>>

\* C5: a component that renders again in place of an old state of its position
\* (the root, a component rendering by itself, a child matched by its key)
\* keeps the old state's identity and the old state's hook object, and the
\* index holds the new state under that identity
C5_IdentityAndHookKept ==
    /\ \A i \in EventsOf("component_will_render") :
          log[i].hasOld => /\ log[i].id = log[i].oldId
                           /\ log[i].hook = log[i].oldHook
    /\ \A id \in DOMAIN _model_states_by_life_cycle_state_id :
          LET life_cycle_state ==
                  heap[_model_states_by_life_cycle_state_id[id]].life_cycle_state
          IN  life_cycle_state.id = id /\ life_cycle_state.hook = LifeCycleHook(id)

\* a component has rendered a second time, in place of its old state
C5_Witness ==
    \E i \in EventsOf("component_will_render") :
        /\ log[i].hasOld
        /\ log[i].id # _root_life_cycle_state_id
        /\ log[i].id \in DOMAIN _model_states_by_life_cycle_state_id

\* the children event of a parent whose keyed component children came back in
\* another order
Reordered(e) ==
    /\ e.ev = "children"
    /\ e.hasOld
    /\ e.wasComponent
    /\ Range(e.keys) = Range(e.oldKeys)
    /\ Len(e.keys) = Len(e.oldKeys)
    /\ e.keys # e.oldKeys
    /\ \A i \in 1..Len(e.keys) : e.keys[i].kind = "explicit" /\ e.types[i] = _COMPONENT_TYPE

\* C6: when a parent renders again with the same keyed component children in
\* another order, the render succeeds, every child renders under its old
\* identity and hook at its new index, with the patch path of that index, and
\* no child is unmounted
C6_ReorderKeepsIdentity ==
    \A i \in 1..Len(log) :
        Reordered(log[i]) =>
            /\ \A j \in i..Len(log) : log[j].ev \notin {"raise", "component_will_unmount"}
            /\ \A k \in 1..Len(log[i].keys) :
                  \E j \in i..Len(log) :
                      /\ log[j].ev = "component_will_render"
                      /\ log[j].key = log[i].keys[k]
                      /\ log[j].id = log[j].oldId
                      /\ log[j].hook = log[j].oldHook
                      /\ log[j].index = k - 1
                      /\ log[j].path = Append(log[j].parentPath, k - 1)

\* the children of the model dict d that carry a key
KeyedChildren(d) ==
    {i \in 1..Len(models[d].children) :
        ~models[d].children[i].text /\ models[models[d].children[i].ref].hasKey}

\* C7: a fragment with two children that resolve to one key makes the engine
\* raise an error of duplicate keys, naming the path and the keys, on a first
\* render as on a later one; so no model has two children with one key
C7_DuplicateKeysRaise ==
    /\ \A i \in EventsOf("children") :
          DuplicateKeys([k \in 1..Len(log[i].keys) |-> [key |-> log[i].keys[k]]]) # {}
            => /\ i < Len(log)
               /\ log[i + 1].ev = "raise"
               /\ log[i + 1].exc.what = "Duplicate keys"
               /\ log[i + 1].exc.path = log[i].path
               /\ log[i + 1].exc.keys =
                    DuplicateKeys([k \in 1..Len(log[i].keys) |-> [key |-> log[i].keys[k]]])
    /\ \A d \in DOMAIN models :
          \A i, j \in KeyedChildren(d) :
              models[models[d].children[i].ref].key = models[models[d].children[j].ref].key
                  => i = j

\* the match of a key whose old state is of the other kind than the new child
KindChanged(e) ==
    /\ e.ev = "match"
    /\ \/ e.wasComponent /\ e.type = _DICT_TYPE
       \/ ~e.wasComponent /\ e.type = _COMPONENT_TYPE

\* C8: a key the old state maps to an element and the new fragment to a
\* component, or the other way round, makes the engine raise an error that
\* names the path and the key, and no state continues the old one
C8_KindChangeRaises ==
    \A i \in 1..Len(log) :
        KindChanged(log[i]) =>
            /\ i < Len(log)
            /\ log[i + 1].ev = "raise"
            /\ log[i + 1].exc.type = "ValueError"
            /\ log[i + 1].exc.path = log[i].path
            /\ log[i + 1].exc.keys = {log[i].key}

\* a render met a key the old state mapped to a component and the new fragment
\* maps to an element
C8_Witness ==
    \E i \in 1..Len(log) : KindChanged(log[i]) /\ log[i].wasComponent

\* the engine's own state: what deliver must leave alone
engine == << heap, models, _event_handlers, _model_states_by_life_cycle_state_id,
             _pending, _queue >>

\* C9: deliver for a target that is not in the registry returns, calls no
\* handler and leaves the registry, the states, the index and the pending set
\* as they were
C9_UnknownTargetIgnored ==
    [][(result'.op = "deliver" /\ result'.id \notin DOMAIN _event_handlers)
        => /\ result'.kind = "returned"
           /\ \A i \in 1..Len(log') : log'[i].ev # "handler"
           /\ UNCHANGED engine]_vars

\* an event for a target that no handler has was delivered, handlers being there
C9_Witness ==
    /\ result.op = "deliver"
    /\ result.id \notin DOMAIN _event_handlers
    /\ _event_handlers # EmptyFn
    /\ Len(log) = 1
    /\ log[1].ev = "logger.info"

\* C10: when the handler deliver finds raises, deliver returns all the same;
\* the handler was called once, with the event's data; and the engine is as it
\* was, so that later calls find it working
C10_HandlerErrorCaught ==
    [][(result'.op = "deliver" /\ \E i \in 1..Len(log') : log'[i].ev = "raise")
        => /\ result'.kind = "returned"
           /\ Cardinality({i \in 1..Len(log') : log'[i].ev = "handler"}) = 1
           /\ \A i \in 1..Len(log') :
                 log'[i].ev = "handler" =>
                    /\ log'[i].id = result'.id
                    /\ log'[i].args = _wrap_in_warning_event_proxies(result'.data)
           /\ UNCHANGED engine]_vars

\* deliver has returned from a handler that raised
C10_Witness ==
    /\ result.op = "deliver"
    /\ result.kind = "returned"
    /\ \E i \in 1..Len(log) : log[i].ev = "raise"
    /\ \E i \in 1..Len(log) : log[i].ev = "handler" /\ log[i].id = result.id

\* a component's render() raised and _render_component caught it
RenderRaised(e) == e.ev = "caught" /\ e.exc.type = "RenderError"

\* C11: when a component's render() raises, its model becomes the error
\* fragment: tagName "" and the error text "<type>: <message>" in debug mode,
\* "" otherwise; the fragment goes into the parent's children at the
\* component's index; and the loop over the parent's children goes on to its
\* end, unless a later child is itself a hard error of the caller
C11_RenderErrorIsFragment ==
    \A i \in 1..Len(log) :
        RenderRaised(log[i]) =>
            /\ log[i].value =
                  << [NewModel("") EXCEPT
                        !.hasError = TRUE,
                        !.error = IF IDOM_DEBUG_MODE
                                  THEN << log[i].exc.type, ": ", log[i].exc.what >>
                                  ELSE <<>>] >>
            /\ log[i].state # 0 =>
                  /\ i < Len(log)
                  /\ log[i + 1].ev = "splice"
                  /\ log[i + 1].id = log[i].id
                  /\ log[i + 1].index = log[i].index
                  /\ log[i + 1].value = log[i].value
                  /\ \A j \in 1..(i - 1) :
                        (log[j].ev = "children" /\ log[j].state = log[i].state) =>
                            \E k \in (i + 1)..Len(log) :
                                \/ /\ log[k].ev = "children_done"
                                   /\ log[k].state = log[i].state
                                   /\ log[k].index = Len(log[j].keys)
                                \/ /\ log[k].ev = "raise"
                                   /\ log[k].exc.type = "ValueError"

\* C12: the update a render() returns has the patch path of the state that
\* rendered, as new that state's model after the render, and as old the model
\* the identity's state had before the render, absent exactly when it had none;
\* the first update is the root's, with the empty path and no old model
C12_UpdateDescribesRender ==
    [][(result'.op = "render" /\ result'.kind = "returned") =>
        /\ result'.id \in DOMAIN _model_states_by_life_cycle_state_id
        /\ result'.id \in DOMAIN _model_states_by_life_cycle_state_id'
        /\ LET old == heap[_model_states_by_life_cycle_state_id[result'.id]]
               new == heap'[_model_states_by_life_cycle_state_id'[result'.id]]
           IN  /\ result'.update.path = new.patch_path
               /\ result'.update.new = << ModelValue(models', new.model) >>
               /\ result'.update.hasOld = (old.model # 0)
               /\ result'.update.old = IF old.model = 0 THEN <<>>
                                       ELSE << ModelValue(models, old.model) >>
        /\ gets = 0 => /\ result'.id = _root_life_cycle_state_id
                       /\ result'.update.path = <<>>
                       /\ ~result'.update.hasOld]_vars

\* a render() returned the update of a component that is not the root and that
\* had a model before, other than the one it has now
C12_Witness ==
    /\ result.op = "render"
    /\ result.kind = "returned"
    /\ result.id # _root_life_cycle_state_id
    /\ result.update.hasOld
    /\ result.update.old # result.update.new
    /\ result.update.path # <<>>

\* the states of the tree under the root's state
Reachable ==
    Subtree(heap, {_model_states_by_life_cycle_state_id[id] :
                      id \in {_root_life_cycle_state_id}
                             \cap DOMAIN _model_states_by_life_cycle_state_id})

\* the target t, kept for an event from an old state, is after the operation
\* the target of handler in the registry, and of that event in every state and
\* model that hold it
KeptIn(t, event, handler, h, ms, handlers) ==
    /\ t \in DOMAIN handlers
    /\ handlers[t] = handler
    /\ \A s \in DOMAIN h :
          \A k \in 1..Len(h[s].targets_by_event) :
              h[s].targets_by_event[k].v = t =>
                  /\ h[s].targets_by_event[k].k = event
                  /\ DictGet(ms[h[s].model].eventHandlers, event).target = t

\* C13: a state that stays mounted across a render (a component under its
\* identity, or a child matched by its key) and has an event before and after
\* keeps the event's target, in the state and in the model; and after the
\* render the registry maps the target to the new fragment's handler
C13_TargetKept ==
    [][result'.op = "render" =>
        /\ \A id \in (DOMAIN _model_states_by_life_cycle_state_id)
                         \cap DOMAIN _model_states_by_life_cycle_state_id' :
              LET old == heap[_model_states_by_life_cycle_state_id[id]].targets_by_event
                  new == heap'[_model_states_by_life_cycle_state_id'[id]].targets_by_event
              IN  \A k \in 1..Len(old) :
                      DictHas(new, old[k].k) =>
                          /\ DictGet(new, old[k].k) = old[k].v
                          /\ old[k].v \in DOMAIN _event_handlers'
        /\ \A i \in 1..Len(log') :
              log'[i].ev = "old_target" =>
                  /\ i < Len(log')
                  /\ log'[i + 1].ev = "register"
                  /\ log'[i + 1].state = log'[i].state
                  /\ log'[i + 1].id = log'[i].id
                  /\ KeptIn(log'[i].id, log'[i].value[1], log'[i + 1].value[2],
                            heap', models', _event_handlers')]_vars

\* a component rendered again with a handler for an event it had a target for,
\* the handler being another one than the registry held
C13_Witness ==
    /\ result.op = "render"
    /\ result.kind = "returned"
    /\ \E i \in EventsOf("old_target") :
          /\ log[i].id \in DOMAIN _event_handlers
          /\ _event_handlers[log[i].id].fn = "raise"
          /\ \E s \in Reachable :
                \E k \in 1..Len(heap[s].targets_by_event) :
                    heap[s].targets_by_event[k].v = log[i].id

\* C14: when the scope exits, whatever renders came before, the unmount ends
\* without an exception, every identity of the index gets
\* component_will_unmount, and the registry and the index end empty
C14_ExitUnmountsAll ==
    [][result'.op = "exit" =>
        /\ result'.kind = "returned"
        /\ \A id \in DOMAIN _model_states_by_life_cycle_state_id :
              \E i \in 1..Len(log') :
                  log'[i].ev = "component_will_unmount" /\ log'[i].id = id
        /\ DOMAIN _event_handlers' = {}
        /\ DOMAIN _model_states_by_life_cycle_state_id' = {}]_vars

\* the identities a run can make
Identities == 1..(MaxGets + MaxQueue)

\* get() returned v to render()
Delivered(v) == result.op = "render" /\ result.id = v /\ ~GetFailed

\* C15: with a render loop that keeps consuming, every identity in the queue
\* is in the end returned by get(); the get() that returns an identity takes
\* it out of _pending, so that a put of it after that is queued again, and so
\* delivered again
C15_ScheduledIsDelivered ==
    /\ [](Range(_queue) \subseteq Identities)
    /\ \A v \in Identities : (v \in Range(_queue)) ~> Delivered(v)
    /\ [][gets' = gets + 1 => result'.id \notin _pending']_vars
    /\ [][(result'.op = "put" /\ result'.id \notin _pending)
            => (_queue' = Append(_queue, result'.id) /\ result'.id \in _pending')]_vars

\* an identity was put again after get() had returned it, and was then
\* returned a second time
C15_Witness ==
    /\ gets >= 2
    /\ result.op = "render"
    /\ result.kind = "returned"
    /\ result.update.hasOld
    /\ result.id \notin _pending

\* C16: identities leave the queue in the order in which their puts were
\* accepted: a step keeps the order of the identities that stay queued, puts
\* an accepted identity behind all that are queued, and get() returns the one
\* that is before all others
C16_FirstScheduledFirst ==
    [][/\ \A a, b \in Range(_queue) \cap Range(_queue') :
             Rank(_queue, a) < Rank(_queue, b) => Rank(_queue', a) < Rank(_queue', b)
       /\ \A a \in Range(_queue) \cap Range(_queue'), b \in Range(_queue') \ Range(_queue) :
             Rank(_queue', a) < Rank(_queue', b)
       /\ gets' = gets + 1 =>
             /\ result'.id = Head(_queue)
             /\ \A b \in Range(_queue) \ {result'.id} : b \in Range(_queue')]_vars

\* get() returned one identity while another, put after it, stays queued
C16_Witness ==
    /\ result.op = "render"
    /\ ~GetFailed
    /\ _queue # <<>>
    /\ result.id \notin Range(_queue)
    /\ Head(_queue) # _root_life_cycle_state_id

\* the identities of the components in the tree under the state of id
ComponentsUnder(id) ==
    SubtreeIds(heap, {_model_states_by_life_cycle_state_id[x] :
                         x \in {id} \cap DOMAIN _model_states_by_life_cycle_state_id})

\* C17: in a render, component_did_render fires once for each component of
\* the tree just rendered and for no other, after everything else the render
\* does, and for every component below a component before that component
C17_DidRenderPostOrder ==
    (result.op = "render" /\ result.kind = "returned") =>
        /\ \A id \in ComponentsUnder(result.id) :
              Cardinality({i \in EventsOf("component_did_render") : log[i].id = id}) = 1
        /\ \A i \in EventsOf("component_did_render") :
              /\ log[i].id \in ComponentsUnder(result.id)
              /\ \A j \in (i + 1)..Len(log) :
                    /\ log[j].ev = "component_did_render"
                    /\ log[i].state \notin log[j].ancestors

\* C18: every component.render() comes right after component_will_render and
\* set_current of that component's hook and is followed at once by
\* unset_current of the same hook, also when it raises; set_current and
\* unset_current occur nowhere else, so one hook at most is current, that of
\* the component being called, and none between the calls or at the end
C18_HookCurrentAroundRender ==
    \A i \in 1..Len(log) :
        /\ log[i].ev = "render" =>
              /\ i > 2 /\ i < Len(log)
              /\ log[i - 2].ev = "component_will_render" /\ log[i - 2].id = log[i].id
              /\ log[i - 1].ev = "set_current" /\ log[i - 1].id = log[i].id
              /\ log[i - 1].hook = log[i - 2].hook
              /\ log[i + 1].ev = "unset_current" /\ log[i + 1].id = log[i].id
              /\ log[i + 1].hook = log[i - 1].hook
        /\ log[i].ev = "set_current" => (i < Len(log) /\ log[i + 1].ev = "render")
        /\ log[i].ev = "unset_current" => (i > 1 /\ log[i - 1].ev = "render")
        /\ log[i].ev = "component_will_render" =>
              (i + 1 < Len(log) /\ log[i + 2].ev = "render" /\ log[i + 2].id = log[i].id)

\* the render() of a component below the root raised, and its hook was unset
C18_Witness ==
    \E i \in 1..Len(log) :
        /\ log[i].ev = "unset_current"
        /\ log[i].id # _root_life_cycle_state_id
        /\ i < Len(log)
        /\ log[i + 1].ev = "raise"
        /\ log[i + 1].exc.type = "RenderError"

\* C19: after a render() that returned, the targets of the registry are
\* exactly the targets that the states of the tree under the root hold in
\* targets_by_event
C19_RegistryIsMountedTargets ==
    (result.op = "render" /\ result.kind = "returned") =>
        DOMAIN _event_handlers =
            UNION {Range(DictValues(heap[s].targets_by_event)) : s \in Reachable}

\* the exceptions of a deletion of what is already deleted
DeletedTwice ==
    {Exc("KeyError", "_event_handlers", <<>>, {}),
     Exc("KeyError", "_model_states_by_life_cycle_state_id", <<>>, {})}

\* C20: a state is unmounted once at most: no identity gets
\* component_will_unmount twice, no unmount deletes a target or an identity
\* that is already deleted, and once an identity got component_will_unmount
\* no component_will_render and no component_did_render fires for it
C20_UnmountedOnce ==
    \A i \in 1..Len(log) :
        /\ log[i].ev = "raise" => log[i].exc \notin DeletedTwice
        /\ log[i].ev = "component_did_render" =>
              log[i].id \in DOMAIN _model_states_by_life_cycle_state_id
        /\ log[i].ev = "component_will_unmount" =>
              \A j \in (i + 1)..Len(log) :
                  log[j].id = log[i].id =>
                      log[j].ev \notin {"component_will_unmount", "component_will_render",
                                        "component_did_render"}

\* the dicts that the children list of a state's model refers to
ChildModels(s) ==
    IF heap[s].model = 0 THEN <<>>
    ELSE SelectKeys([i \in 1..Len(models[heap[s].model].children) |->
                        IF models[heap[s].model].children[i].text THEN 0
                        ELSE models[heap[s].model].children[i].ref],
                    DOMAIN models)

\* the state c was unmounted: its identity left the index, or a target of it
\* left the registry
Unmounted(c) ==
    \/ /\ HasLifeCycleState(heap[c])
       /\ \/ heap[c].life_cycle_state.id \notin DOMAIN _model_states_by_life_cycle_state_id
          \/ _model_states_by_life_cycle_state_id[heap[c].life_cycle_state.id] # c
    \/ ~(Range(DictValues(heap[c].targets_by_event)) \subseteq DOMAIN _event_handlers)

\* C21: after a render() that returned, the children_by_key of every state
\* of the tree under the root has one entry for each dict in the children of
\* the state's model and no other entry, and no entry is a state that was
\* unmounted
C21_ChildrenByKeyIsCurrent ==
    (result.op = "render" /\ result.kind = "returned") =>
        \A s \in Reachable :
            /\ Len(heap[s].children_by_key) = Len(ChildModels(s))
            /\ {heap[c].model : c \in Range(DictValues(heap[s].children_by_key))}
                  = Range(ChildModels(s))
            /\ \A c \in Range(DictValues(heap[s].children_by_key)) : ~Unmounted(c)

\* the life cycle ids of the component states of the tree under the root
MountedIds == SubtreeIds(heap, Reachable \cap {s \in DOMAIN heap : HasLifeCycleState(heap[s])})

\* C22: after a render() that returned, the identities of the index are
\* exactly those of the component states of the tree under the root, and the
\* index maps each to the state of the tree that holds it; so after a render
\* whose component raised, or whose diff failed, no old child is left in the
\* index
C22_IndexIsMountedComponents ==
    (result.op = "render" /\ result.kind = "returned") =>
        /\ DOMAIN _model_states_by_life_cycle_state_id = MountedIds
        /\ \A id \in DOMAIN _model_states_by_life_cycle_state_id :
              /\ _model_states_by_life_cycle_state_id[id] \in Reachable
              /\ heap[_model_states_by_life_cycle_state_id[id]].life_cycle_state.id = id

\* the state of the root component
RootState == _model_states_by_life_cycle_state_id[_root_life_cycle_state_id]

\* the children list of the model of the parent of state s holds the model of
\* s at the index of s
InParentModel(h, ms, s) ==
    /\ h[s].parent \in DOMAIN h
    /\ h[h[s].parent].model \in DOMAIN ms
    /\ h[s].index + 1 \in DOMAIN ms[h[h[s].parent].model].children
    /\ ms[h[h[s].parent].model].children[h[s].index + 1] = RefItem(h[s].model)

\* the children of the model of the parent of state s, as values
SlotsAround(h, ms, s) == ModelValue(ms, h[h[s].parent].model).children

\* render() of the identity id, which is not the root's and whose state had a
\* parent, returned in this step
RenderedBelowRoot(id) ==
    /\ result'.op = "render" /\ result'.kind = "returned" /\ result'.id = id
    /\ id # _root_life_cycle_state_id
    /\ id \in DOMAIN _model_states_by_life_cycle_state_id
    /\ id \in DOMAIN _model_states_by_life_cycle_state_id'
    /\ heap[_model_states_by_life_cycle_state_id[id]].parent \in DOMAIN heap

\* C23: after a render() that returned, the model of the parent of every
\* state of the tree below the root that was not unmounted holds the state's
\* model at the state's index; and a render() of a component below the root replaces the slot at
\* its index in the children of its parent's model and no other slot
C23_ModelIsCurrentTree ==
    /\ [](result.op = "render" /\ result.kind = "returned" =>
            \A s \in Reachable \ {RootState} :
                ~Unmounted(s) => InParentModel(heap, models, s))
    /\ [][\A id \in Identities : RenderedBelowRoot(id) =>
            LET old == _model_states_by_life_cycle_state_id[id]
                new == _model_states_by_life_cycle_state_id'[id]
            IN  /\ InParentModel(heap', models', new)
                /\ SlotsAround(heap', models', new) =
                      [SlotsAround(heap, models, old) EXCEPT
                          ![heap[old].index + 1] = << ModelValue(models', heap'[new].model) >>]]_vars
====
